---- MODULE Spec2Model ----
(***************************************************************************)
(* Model of src/os_cpu/solaris_sparc/vm/vm_version_solaris_sparc.cpp:      *)
(* VM_Version::platform_features (feature-bit assembly from sysinfo,       *)
(* getisax and kstat) followed by the PICL cache-line probe (dlopen and    *)
(* symbol binding, the device-tree walk with CPUVisitor and its two        *)
(* UniqueValueVisitor trackers).                                           *)
(***************************************************************************)
EXTENDS Integers, Sequences, FiniteSets, TLC

\* ------------------------------------------------------------------------
\* Bounds of the model
\* ------------------------------------------------------------------------
\* Largest number of device nodes of the walked class in the PICL tree.
MaxNodes == 3
\* Largest value returned by os::processor_count().
MaxCPUs == 3

\* ------------------------------------------------------------------------
\* PICL return codes and names
\* ------------------------------------------------------------------------
PICL_SUCCESS == "PICL_SUCCESS"
PICL_FAILURE == "PICL_FAILURE"
PICL_WALK_CONTINUE == "PICL_WALK_CONTINUE"
PICL_WALK_TERMINATE == "PICL_WALK_TERMINATE"

NULL == "NULL"
L1Name == "l1-dcache-line-size"
L2Primary == "l2-cache-line-size"
L2Fallback == "l2-dcache-line-size"

\* The entry points bind_library_functions resolves, in its order.
PICL_SYMBOLS ==
  << "picl_initialize", "picl_shutdown", "picl_get_root",
     "picl_walk_tree_by_class", "picl_get_prop_by_name",
     "picl_get_propval", "picl_get_propinfo" >>

\* ------------------------------------------------------------------------
\* Properties of a device node, as the PICL library reports them.
\*   found   : picl_get_prop_by_name succeeds
\*   info_ok : picl_get_propinfo succeeds
\*   type    : pinfo.type
\*   size    : pinfo.size in bytes
\*   val_ok  : picl_get_propval succeeds
\*   hi, lo  : the stored integer, as its upper and lower 32-bit words
\* ------------------------------------------------------------------------
Prop(found, info_ok, type, size, val_ok, hi, lo) ==
  [found |-> found, info_ok |-> info_ok, type |-> type, size |-> size,
   val_ok |-> val_ok, hi |-> hi, lo |-> lo]

PAbsent   == Prop(FALSE, FALSE, "NONE", 0, FALSE, 0, 0)
PNoInfo   == Prop(TRUE, FALSE, "NONE", 0, FALSE, 0, 0)
PString   == Prop(TRUE, TRUE, "PICL_PTYPE_CHARSTRING", 4, TRUE, 0, 64)
PShort    == Prop(TRUE, TRUE, "PICL_PTYPE_INT", 2, TRUE, 0, 64)
PNoVal    == Prop(TRUE, TRUE, "PICL_PTYPE_INT", 4, FALSE, 0, 64)
PNoVal64  == Prop(TRUE, TRUE, "PICL_PTYPE_INT", 8, FALSE, 0, 64)
PInt32(v) == Prop(TRUE, TRUE, "PICL_PTYPE_INT", 4, TRUE, 0, v)
PUns32(v) == Prop(TRUE, TRUE, "PICL_PTYPE_UNSIGNED_INT", 4, TRUE, 0, v)
PInt64(v) == Prop(TRUE, TRUE, "PICL_PTYPE_INT", 8, TRUE, 0, v)
\* a 64-bit property whose upper word is not zero
PWide64(v) == Prop(TRUE, TRUE, "PICL_PTYPE_UNSIGNED_INT", 8, TRUE, 1, v)

Node(l1, l2, l2d) ==
  (L1Name :> l1) @@ (L2Primary :> l2) @@ (L2Fallback :> l2d)

\* The device nodes the library may present to the callback.
Nodes ==
  { Node(PInt32(64), PInt32(64), PAbsent),
    Node(PInt32(32), PInt32(32), PAbsent),
    Node(PWide64(64), PAbsent, PInt64(64)),
    Node(PUns32(64), PAbsent, PUns32(32)),
    Node(PInt64(32), PInt32(64), PInt32(32)),
    Node(PInt32(64), PInt32(32), PInt32(64)),
    Node(PAbsent, PAbsent, PAbsent),
    Node(PAbsent, PNoInfo, PNoVal),
    Node(PNoVal64, PInt32(64), PAbsent),
    Node(PString, PInt32(64), PAbsent),
    Node(PInt32(64), PAbsent, PShort) }

\* ------------------------------------------------------------------------
\* PICL::get_int_property
\* Result: rc, the int stored through *result (meaningful when rc is
\* PICL_SUCCESS), and the message of the assert(false, ...) it passed, if any.
\* static_cast<int> of the 64-bit value keeps the lower word.
\* ------------------------------------------------------------------------
IntResult(rc, val, failed) == [rc |-> rc, val |-> val, failed |-> failed]

get_int_property(p) ==
  IF ~p.found \/ ~p.info_ok
    THEN IntResult(PICL_FAILURE, 0, <<>>)
  ELSE IF p.type # "PICL_PTYPE_INT" /\ p.type # "PICL_PTYPE_UNSIGNED_INT"
    THEN IntResult(PICL_FAILURE, 0, << "Invalid property type" >>)
  ELSE IF p.size = 8
    THEN IF ~p.val_ok THEN IntResult(PICL_FAILURE, 0, <<>>)
         ELSE IntResult(PICL_SUCCESS, p.lo, <<>>)
  ELSE IF p.size = 4
    THEN IF ~p.val_ok THEN IntResult(PICL_FAILURE, 0, <<>>)
         ELSE IntResult(PICL_SUCCESS, p.lo, <<>>)
  ELSE IntResult(PICL_FAILURE, 0, << "Unexpected integer property size" >>)

\* ------------------------------------------------------------------------
\* PICL::UniqueValueVisitor
\* A tracker is [state, value]; value is only read in state ASSIGNED.
\* Each operation returns the tracker and the assertions whose condition
\* was false (they stop a debug build and are compiled out of a product
\* build).
\* ------------------------------------------------------------------------
INITIAL == "INITIAL"
ASSIGNED == "ASSIGNED"
INCONSISTENT == "INCONSISTENT"

UniqueValueVisitor == [state |-> INITIAL, value |-> 0]

is_initial(t) == t.state = INITIAL
is_assigned(t) == t.state = ASSIGNED
is_inconsistent(t) == t.state = INCONSISTENT

set_value(t, v) == [state |-> ASSIGNED, value |-> v]

\* value(): the assertion it violates when the tracker is not ASSIGNED
value_failed(t) ==
  IF is_assigned(t) THEN <<>> ELSE << "Precondition: value" >>

set_inconsistent(t) == [t EXCEPT !.state = INCONSISTENT]

\* UVV_visit with a differing reading replacing the stored value
UVV_visit_overwrite(t, p) ==
  LET r == get_int_property(p)
  IN IF r.rc = PICL_SUCCESS
       THEN [t |-> set_value(t, r.val), ret |-> TRUE, failed |-> r.failed]
       ELSE [t |-> t, ret |-> FALSE, failed |-> r.failed]

\* UniqueValueVisitor::visit on a property p of the node.
\* Result: [t: the tracker afterwards, ret: the bool returned,
\*          failed: the assertions violated, in order]
UVV_visit(t, p) ==
  LET r == get_int_property(p)
      pre == IF is_inconsistent(t) THEN << "Precondition: visit" >> ELSE <<>>
  IN IF r.rc = PICL_SUCCESS
       THEN IF ~is_assigned(t)
              THEN [t |-> set_value(t, r.val), ret |-> TRUE,
                    failed |-> pre \o r.failed \o
                      (IF ~is_initial(t) THEN << "Precondition: set_value" >>
                       ELSE <<>>)]
              ELSE IF r.val # t.value
                     THEN [t |-> set_inconsistent(t), ret |-> TRUE,
                           failed |-> pre \o r.failed \o value_failed(t)]
                     ELSE [t |-> t, ret |-> TRUE,
                           failed |-> pre \o r.failed \o value_failed(t)]
       ELSE [t |-> t, ret |-> FALSE, failed |-> pre \o r.failed]

\* ------------------------------------------------------------------------
\* PICL::CPUVisitor::visit, the callback of the tree walk, on one node.
\* ------------------------------------------------------------------------
\* L1Step without the is_inconsistent() test
L1Step_unguarded(l1, node) == UVV_visit(l1, node[L1Name])

\* lines 155-157: the L1 tracker is visited unless it is INCONSISTENT
L1Step(l1, node) ==
  IF ~is_inconsistent(l1)
    THEN UVV_visit(l1, node[L1Name])
    ELSE [t |-> l1, ret |-> FALSE, failed |-> <<>>]

\* L2Step choosing the name anew on every node
L2Step_rechoose(l2, name, node) ==
  LET p == UVV_visit(l2, node[L2Primary])
      f == UVV_visit(p.t, node[L2Fallback])
  IN IF is_inconsistent(l2)
       THEN [t |-> l2, name |-> IF name = NULL THEN L2Primary ELSE name,
             failed |-> <<>>, tried |-> <<>>]
     ELSE IF p.ret
       THEN [t |-> p.t, name |-> L2Primary, failed |-> p.failed,
             tried |-> << L2Primary >>]
     ELSE [t |-> f.t, name |-> L2Fallback, failed |-> p.failed \o f.failed,
           tried |-> << L2Primary, L2Fallback >>]

\* L2Step never switching to the fallback name
L2Step_primary_only(l2, name, node) ==
  IF is_inconsistent(l2)
    THEN [t |-> l2, name |-> L2Primary, failed |-> <<>>, tried |-> <<>>]
    ELSE LET p == UVV_visit(l2, node[L2Primary])
         IN [t |-> p.t, name |-> L2Primary, failed |-> p.failed,
             tried |-> << L2Primary >>]

\* lines 158-171: the L2 tracker; name is the function-local static
\* l2_data_cache_line_property_name.
\* Result: the tracker and the static afterwards, the assertions violated
\* and the names the tracker was visited with, in order.
L2Step(l2, name, node) ==
  IF name = NULL
    THEN LET pre == IF is_inconsistent(l2)
                      THEN << "First iteration cannot be inconsistent" >>
                      ELSE <<>>
             p == UVV_visit(l2, node[L2Primary])
             f == UVV_visit(p.t, node[L2Fallback])
         IN IF p.ret
              THEN [t |-> p.t, name |-> L2Primary,
                    failed |-> pre \o p.failed, tried |-> << L2Primary >>]
              ELSE [t |-> f.t, name |-> L2Fallback,
                    failed |-> pre \o p.failed \o f.failed,
                    tried |-> << L2Primary, L2Fallback >>]
    ELSE IF ~is_inconsistent(l2)
           THEN LET m == UVV_visit(l2, node[name])
                IN [t |-> m.t, name |-> name, failed |-> m.failed,
                    tried |-> << name >>]
           ELSE [t |-> l2, name |-> name, failed |-> <<>>, tried |-> <<>>]

\* WalkVerdict with _limit < 0 for _limit <= 0
WalkVerdict_late(l1, l2, limit) ==
  IF is_inconsistent(l1) /\ is_inconsistent(l2)
    THEN [limit |-> limit, ret |-> PICL_WALK_TERMINATE]
    ELSE [limit |-> limit - 1,
          ret |-> IF limit - 1 < 0 THEN PICL_WALK_TERMINATE
                  ELSE PICL_WALK_CONTINUE]

\* WalkVerdict with the decrement moved before the consistency test
WalkVerdict_decrement_first(l1, l2, limit) ==
  IF is_inconsistent(l1) /\ is_inconsistent(l2)
    THEN [limit |-> limit - 1, ret |-> PICL_WALK_TERMINATE]
    ELSE [limit |-> limit - 1,
          ret |-> IF limit - 1 <= 0 THEN PICL_WALK_TERMINATE
                  ELSE PICL_WALK_CONTINUE]

\* lines 173-180: the termination rule.
\* Result: _limit afterwards and the value returned to the library.
WalkVerdict(l1, l2, limit) ==
  IF is_inconsistent(l1) /\ is_inconsistent(l2)
    THEN [limit |-> limit, ret |-> PICL_WALK_TERMINATE]
    ELSE [limit |-> limit - 1,
          ret |-> IF limit - 1 <= 0 THEN PICL_WALK_TERMINATE
                  ELSE PICL_WALK_CONTINUE]

\* lines 151-181
\* Result: the two trackers, _limit and the static afterwards, the value
\* returned to the library, the assertions violated (in order) and the
\* property names the L2 tracker was visited with on this node.
CPUVisitor_visit(l1, l2, limit, name, node) ==
  LET s1 == L1Step(l1, node)
      s2 == L2Step(l2, name, node)
      w == WalkVerdict(s1.t, s2.t, limit)
  IN [l1 |-> s1.t, l2 |-> s2.t, limit |-> w.limit, name |-> s2.name,
      ret |-> w.ret, failed |-> s1.failed \o s2.failed,
      l2tried |-> s2.tried]

\* ------------------------------------------------------------------------
\* PICL::bind, bind_library_functions, open_library, close_library
\* avail is the set of entry points dlsym can resolve. && stops at the
\* first entry point that does not resolve; the pointers after it are
\* never assigned.
\* ------------------------------------------------------------------------
RECURSIVE BindFrom(_, _)
BindFrom(i, avail) ==
  IF i > Len(PICL_SYMBOLS) \/ PICL_SYMBOLS[i] \notin avail
    THEN {}
    ELSE {PICL_SYMBOLS[i]} \cup BindFrom(i + 1, avail)

\* bind_library_functions satisfied with any entry point
bind_library_functions_any(avail) ==
  [bound |-> BindFrom(1, avail), ret |-> BindFrom(1, avail) # {}]

\* Result: the pointers that are bound (not NULL), and the bool returned.
bind_library_functions(avail) ==
  LET b == BindFrom(1, avail)
  IN [bound |-> b, ret |-> Cardinality(b) = Len(PICL_SYMBOLS)]

\* Result: _dl_handle afterwards, the library events, assertions violated.
close_library(handle) ==
  [handle |-> NULL,
   events |-> << "dlclose" >>,
   failed |-> IF handle = NULL THEN << "library should be open" >> ELSE <<>>]

\* open_bind returning without close_library when an entry point is missing
open_bind_noclose(handle, avail) ==
  LET b == bind_library_functions(avail)
  IN [handle |-> handle, bound |-> b.bound, ret |-> b.ret,
      events |-> << "dlopen" >>,
      failed |-> IF b.ret THEN <<>> ELSE << "unexpected PICL API change" >>]

\* lines 250-255: open_library once dlopen has returned the handle
open_bind(handle, avail) ==
  LET b == bind_library_functions(avail)
      c == close_library(handle)
  IN IF ~b.ret
       THEN [handle |-> c.handle, bound |-> b.bound, ret |-> FALSE,
             events |-> << "dlopen" >> \o c.events,
             failed |-> << "unexpected PICL API change" >> \o c.failed]
       ELSE [handle |-> handle, bound |-> b.bound, ret |-> TRUE,
             events |-> << "dlopen" >>, failed |-> <<>>]

\* open_library not testing the handle dlopen returned
open_library_unchecked(dl_ok, avail) ==
  IF ~dl_ok
    THEN [handle |-> NULL, bound |-> BindFrom(1, avail), ret |-> TRUE,
          events |-> << "dlopen_null" >>, failed |-> <<>>]
    ELSE open_bind("libpicl", avail)

\* dl_ok: dlopen("libpicl.so.1") returns a handle.
open_library(dl_ok, avail) ==
  IF ~dl_ok
    THEN [handle |-> NULL, bound |-> {}, ret |-> FALSE,
          events |-> << "dlopen_null" >>, failed |-> <<>>]
    ELSE open_bind("libpicl", avail)

\* ------------------------------------------------------------------------
\* Feature bits (VM_Version::Feature_Flag_Set). A mask is the set of its
\* bits, so that | is \cup and & is \cap.
\* ------------------------------------------------------------------------
v8_instructions_m == {"v8_instructions"}
hardware_mul32_m == {"hardware_mul32"}
hardware_div32_m == {"hardware_div32"}
hardware_fsmuld_m == {"hardware_fsmuld"}
hardware_popc_m == {"hardware_popc"}
v9_instructions_m == {"v9_instructions"}
vis1_instructions_m == {"vis1_instructions"}
vis2_instructions_m == {"vis2_instructions"}
sun4v_m == {"sun4v"}
blk_init_instructions_m == {"blk_init_instructions"}
fmaf_instructions_m == {"fmaf_instructions"}
fmau_instructions_m == {"fmau_instructions"}
vis3_instructions_m == {"vis3_instructions"}
cbcond_instructions_m == {"cbcond_instructions"}
sparc64_family_m == {"sparc64_family"}
M_family_m == {"M_family"}
T_family_m == {"T_family"}
T1_model_m == {"T1_model"}
sparc5_instructions_m == {"sparc5_instructions"}
aes_instructions_m == {"aes_instructions"}
sha1_instruction_m == {"sha1_instruction"}
sha256_instruction_m == {"sha256_instruction"}
sha512_instruction_m == {"sha512_instruction"}
generic_v8_m ==
  v8_instructions_m \cup hardware_mul32_m \cup hardware_div32_m
    \cup hardware_fsmuld_m
generic_v9_m == generic_v8_m \cup v9_instructions_m \cup hardware_popc_m

\* features = mask
OrMask_assign(features, mask) == mask

\* features |= mask
OrMask(features, mask) == features \cup mask

\* ------------------------------------------------------------------------
\* C strings: a string is the tuple of its characters; the character after
\* the last one is the terminating NUL.
\* ------------------------------------------------------------------------
NUL == "NUL"
CharAt(s, i) == IF i <= Len(s) THEN s[i] ELSE NUL

\* s has pat at position i (1-based)
MatchAt(s, pat, i) ==
  /\ i + Len(pat) - 1 <= Len(s)
  /\ \A k \in 1..Len(pat) : s[i + k - 1] = pat[k]

\* strstr(s, pat): the position of the first occurrence, 0 for NULL
strstr(s, pat) ==
  LET hits == {i \in 1..Len(s) : MatchAt(s, pat, i)}
  IN IF hits = {} THEN 0 ELSE CHOOSE i \in hits : \A j \in hits : i <= j

LowerCase == << "a", "b", "c", "d", "e", "f", "g", "h", "i", "j", "k", "l", "m", "n", "o", "p", "q", "r", "s", "t", "u", "v", "w", "x", "y", "z" >>
UpperCase == << "A", "B", "C", "D", "E", "F", "G", "H", "I", "J", "K", "L", "M", "N", "O", "P", "Q", "R", "S", "T", "U", "V", "W", "X", "Y", "Z" >>

toupper(c) ==
  IF \E k \in 1..Len(LowerCase) : LowerCase[k] = c
    THEN UpperCase[CHOOSE k \in 1..Len(LowerCase) : LowerCase[k] = c]
    ELSE c

\* the loop impl[i] = toupper(impl[i])
ToUpperString(s) == [i \in 1..Len(s) |-> toupper(s[i])]

\* ------------------------------------------------------------------------
\* do_sysinfo(si, string, &features, mask)
\* r describes what the OS answers for si:
\*   size      : the first sysinfo(si, &tmp, 1), -1 on error
\*   malloc_ok : malloc(bufsize) returns a buffer
\*   size2     : the second sysinfo(si, buf, bufsize)
\*   buf       : the string stored in buf
\* Result: the features afterwards and whether guarantee(bufsize != -1)
\* failed (a guarantee stops the VM in every build).
\* ------------------------------------------------------------------------
SysinfoAnswer(size, malloc_ok, size2, buf) ==
  [size |-> size, malloc_ok |-> malloc_ok, size2 |-> size2, buf |-> buf]

do_sysinfo(r, string, features, mask) ==
  IF r.size = -1
    THEN [features |-> features, guarantee_failed |-> TRUE]
  ELSE IF ~r.malloc_ok
    THEN [features |-> features, guarantee_failed |-> FALSE]
  ELSE IF r.size2 = r.size /\ r.buf = string
    THEN [features |-> OrMask(features, mask), guarantee_failed |-> FALSE]
  ELSE [features |-> features, guarantee_failed |-> FALSE]

\* ------------------------------------------------------------------------
\* getisax(2) capability words
\* ------------------------------------------------------------------------
AV_SPARC_MUL32 == 1
AV_SPARC_DIV32 == 2
AV_SPARC_FSMULD == 4
AV_SPARC_V8PLUS == 8
AV_SPARC_POPC == 16
AV_SPARC_VIS == 32
AV_SPARC_VIS2 == 64
AV_SPARC_ASI_BLK_INIT == 128
AV_SPARC_FMAF == 256
AV_SPARC_FMAU == 512
AV_SPARC_VIS3 == 1024
AV_SPARC_AES == 131072
AV_SPARC_SHA1 == 4194304
AV_SPARC_SHA256 == 8388608
AV_SPARC_SHA512 == 16777216
AV_SPARC_CBCOND == 268435456
AV2_SPARC_SPARC5 == 8

\* av & bit, for a one-bit mask
HasBit(av, bit) == (av \div bit) % 2 = 1

\* IfBit without the test of the bit
IfBit_always(av, bit, features, mask) == OrMask(features, mask)

\* if (av & bit) features |= mask
IfBit(av, bit, features, mask) ==
  IF HasBit(av, bit) THEN OrMask(features, mask) ELSE features

\* lines 323-383: the mapping of the capability words to feature bits
getisax_features(features, av, avn, av2) ==
  LET f1 == IfBit(av, AV_SPARC_MUL32, features, hardware_mul32_m)
      f2 == IfBit(av, AV_SPARC_DIV32, f1, hardware_div32_m)
      f3 == IfBit(av, AV_SPARC_FSMULD, f2, hardware_fsmuld_m)
      f4 == IfBit(av, AV_SPARC_V8PLUS, f3, v9_instructions_m)
      f5 == IfBit(av, AV_SPARC_POPC, f4, hardware_popc_m)
      f6 == IfBit(av, AV_SPARC_VIS, f5, vis1_instructions_m)
      f7 == IfBit(av, AV_SPARC_VIS2, f6, vis2_instructions_m)
      f8 == IF avn > 1
              THEN IfBit(av2, AV2_SPARC_SPARC5, f7, sparc5_instructions_m)
              ELSE f7
      f9 == IfBit(av, AV_SPARC_ASI_BLK_INIT, f8, blk_init_instructions_m)
      f10 == IfBit(av, AV_SPARC_FMAF, f9, fmaf_instructions_m)
      f11 == IfBit(av, AV_SPARC_FMAU, f10, fmau_instructions_m)
      f12 == IfBit(av, AV_SPARC_VIS3, f11, vis3_instructions_m)
      f13 == IfBit(av, AV_SPARC_CBCOND, f12, cbcond_instructions_m)
      f14 == IfBit(av, AV_SPARC_AES, f13, aes_instructions_m)
      f15 == IfBit(av, AV_SPARC_SHA1, f14, sha1_instruction_m)
      f16 == IfBit(av, AV_SPARC_SHA256, f15, sha256_instruction_m)
  IN IfBit(av, AV_SPARC_SHA512, f16, sha512_instruction_m)

\* ------------------------------------------------------------------------
\* lines 399-415: the legacy parse of the SI_ISALIST string in buf
\* ------------------------------------------------------------------------
\* isalist_features taking any list that names sparc for a full v8
isalist_features_v8(features, buf) ==
  IF strstr(buf, << "s", "p", "a", "r", "c" >>) = 0
    THEN features
    ELSE OrMask(features, generic_v8_m)

isalist_features(features, buf) ==
  LET sp == strstr(buf, << "s", "p", "a", "r", "c" >>)
      c5 == CharAt(buf, sp + 5)
      c6 == CharAt(buf, sp + 6)
      c7 == CharAt(buf, sp + 7)
      fa == IF sp = 0 THEN features
            ELSE LET g == OrMask(features, v8_instructions_m)
                 IN IF c5 = "v"
                      THEN IF c6 = "8"
                             THEN IF c7 = "-"
                                    THEN OrMask(OrMask(g, hardware_mul32_m),
                                                hardware_div32_m)
                                  ELSE IF c7 = "p" THEN OrMask(g, generic_v9_m)
                                  ELSE OrMask(g, generic_v8_m)
                           ELSE IF c6 = "9" THEN OrMask(g, generic_v9_m)
                           ELSE g
                      ELSE g
      vis == strstr(buf, << "v", "i", "s" >>)
  IN IF vis = 0 THEN fa
     ELSE LET h == OrMask(fa, vis1_instructions_m)
          IN IF CharAt(buf, vis + 3) = "2"
               THEN OrMask(h, vis2_instructions_m)
               ELSE h

\* legacy_isalist parsing the buffer whatever the second sysinfo returned
legacy_isalist_unchecked(r, features) ==
  IF r.malloc_ok THEN isalist_features(features, r.buf) ELSE features

\* lines 392-418: the legacy block. r is the answer of sysinfo(SI_ISALIST),
\* as for do_sysinfo; a bufsize of (size_t)-1 is one malloc cannot serve.
legacy_isalist(r, features) ==
  IF r.malloc_ok /\ r.size # -1 /\ r.size2 = r.size
    THEN isalist_features(features, r.buf)
    ELSE features

\* ------------------------------------------------------------------------
\* lines 460-486: family bits from the implementation string
\* Result: the features and the implementation label afterwards.
\* ------------------------------------------------------------------------
S_UNKNOWN == << "U", "N", "K", "N", "O", "W", "N" >>
S_SPARC == << "S", "P", "A", "R", "C" >>
S_SPARC64 == << "S", "P", "A", "R", "C", "6", "4" >>
S_SPARC_M == << "S", "P", "A", "R", "C", "-", "M" >>
S_SPARC_T == << "S", "P", "A", "R", "C", "-", "T" >>
S_SPARC_T1 == << "S", "P", "A", "R", "C", "-", "T", "1" >>

\* implementation_family comparing without the conversion to upper case
implementation_family_nocase(features, implementation) ==
  IF strstr(implementation, S_SPARC64) # 0
    THEN [features |-> OrMask(features, sparc64_family_m),
          implementation |-> implementation]
  ELSE IF strstr(implementation, S_SPARC_M) # 0
    THEN [features |-> OrMask(features, M_family_m \cup T_family_m),
          implementation |-> implementation]
  ELSE IF strstr(implementation, S_SPARC_T) # 0
    THEN [features |->
            IF strstr(implementation, S_SPARC_T1) # 0
              THEN OrMask(OrMask(features, T_family_m), T1_model_m)
              ELSE OrMask(features, T_family_m),
          implementation |-> implementation]
  ELSE IF strstr(implementation, S_SPARC) = 0
    THEN [features |-> features, implementation |-> S_SPARC]
  ELSE [features |-> features, implementation |-> implementation]

\* implementation_family testing SPARC-T before SPARC64 and SPARC-M
implementation_family_T_first(features, implementation) ==
  LET impl == ToUpperString(implementation)
  IN IF strstr(impl, S_SPARC_T) # 0
       THEN [features |->
               IF strstr(impl, S_SPARC_T1) # 0
                 THEN OrMask(OrMask(features, T_family_m), T1_model_m)
                 ELSE OrMask(features, T_family_m),
             implementation |-> implementation]
     ELSE IF strstr(impl, S_SPARC64) # 0
       THEN [features |-> OrMask(features, sparc64_family_m),
             implementation |-> implementation]
     ELSE IF strstr(impl, S_SPARC_M) # 0
       THEN [features |-> OrMask(features, M_family_m \cup T_family_m),
             implementation |-> implementation]
     ELSE IF strstr(impl, S_SPARC) = 0
       THEN [features |-> features, implementation |-> S_SPARC]
     ELSE [features |-> features, implementation |-> implementation]

implementation_family(features, implementation) ==
  LET impl == ToUpperString(implementation)
  IN IF strstr(impl, S_SPARC64) # 0
       THEN [features |-> OrMask(features, sparc64_family_m),
             implementation |-> implementation]
     ELSE IF strstr(impl, S_SPARC_M) # 0
       THEN [features |-> OrMask(features, M_family_m \cup T_family_m),
             implementation |-> implementation]
     ELSE IF strstr(impl, S_SPARC_T) # 0
       THEN [features |->
               IF strstr(impl, S_SPARC_T1) # 0
                 THEN OrMask(OrMask(features, T_family_m), T1_model_m)
                 ELSE OrMask(features, T_family_m),
             implementation |-> implementation]
     ELSE IF strstr(impl, S_SPARC) = 0
       THEN [features |-> features, implementation |-> S_SPARC]
     ELSE [features |-> features, implementation |-> implementation]

\* ------------------------------------------------------------------------
\* lines 426-490: the kstat lookup of cpu_info "implementation"
\* ks describes the kstat chain:
\*   kc_ok     : kstat_open returns a handle
\*   ksp_found : kstat_lookup returns a record
\*   read_ok   : kstat_read does not return -1
\*   data_ok   : ksp->ks_data is not NULL
\*   knm       : the named entries, each [name, data_type, str]
\* ------------------------------------------------------------------------
KSTAT_DATA_CHAR == "KSTAT_DATA_CHAR"
KSTAT_DATA_STRING == "KSTAT_DATA_STRING"
KSTAT_DATA_UINT64 == "KSTAT_DATA_UINT64"

Named(name, data_type, str) ==
  [name |-> name, data_type |-> data_type, str |-> str]

Kstat(kc_ok, ksp_found, read_ok, data_ok, knm) ==
  [kc_ok |-> kc_ok, ksp_found |-> ksp_found, read_ok |-> read_ok,
   data_ok |-> data_ok, knm |-> knm]

\* lines 427-454: the string the block takes for the implementation: that
\* of the first entry named "implementation" (the initial "UNKNOWN" when
\* its data type is neither CHAR nor STRING), NoString when the loop body
\* is never reached.
NoString == << NULL >>

kstat_string(ks) ==
  LET hits == {i \in 1..Len(ks.knm) : ks.knm[i].name = "implementation"}
      i == CHOOSE k \in hits : \A j \in hits : k <= j
  IN IF ks.kc_ok /\ ks.ksp_found /\ ks.read_ok /\ ks.data_ok /\ hits # {}
       THEN IF ks.knm[i].data_type = KSTAT_DATA_CHAR
                 \/ ks.knm[i].data_type = KSTAT_DATA_STRING
              THEN ks.knm[i].str
              ELSE S_UNKNOWN
       ELSE NoString

kstat_implementation(features, ks) ==
  IF kstat_string(ks) # NoString
    THEN implementation_family(features, kstat_string(ks))
    ELSE [features |-> features, implementation |-> S_UNKNOWN]

\* ------------------------------------------------------------------------
\* Inputs: what the caller passes and what the OS answers
\* ------------------------------------------------------------------------
\* the baseline passed to platform_features
Baselines == { {}, v9_instructions_m \cup T_family_m }

SysinfoAnswers ==
  { SysinfoAnswer(6, TRUE, 6, "sparc"),
    SysinfoAnswer(8, TRUE, 8, "sparcv9"),
    SysinfoAnswer(6, TRUE, 6, "sun4v"),
    SysinfoAnswer(6, TRUE, 6, "sun4u"),
    SysinfoAnswer(6, TRUE, 5, "sparc"),
    SysinfoAnswer(6, FALSE, 0, ""),
    SysinfoAnswer(-1, FALSE, 0, "") }

AvAll ==
  AV_SPARC_MUL32 + AV_SPARC_DIV32 + AV_SPARC_FSMULD + AV_SPARC_V8PLUS
    + AV_SPARC_POPC + AV_SPARC_VIS + AV_SPARC_VIS2 + AV_SPARC_ASI_BLK_INIT
    + AV_SPARC_FMAF + AV_SPARC_FMAU + AV_SPARC_VIS3 + AV_SPARC_AES
    + AV_SPARC_SHA1 + AV_SPARC_SHA256 + AV_SPARC_SHA512 + AV_SPARC_CBCOND

\* answers of getisax(avs, 2): << avs[0], the count returned, avs[1] >>
GetisaxAnswers ==
  { << 0, 1, 0 >>,
    << AV_SPARC_MUL32 + AV_SPARC_DIV32 + AV_SPARC_VIS + AV_SPARC_VIS2, 1,
       AV2_SPARC_SPARC5 >>,
    << AV_SPARC_V8PLUS + AV_SPARC_POPC + AV_SPARC_FSMULD + AV_SPARC_VIS3, 2, 0 >>,
    << AvAll, 2, AV2_SPARC_SPARC5 >> }

\* answers of sysinfo(SI_ISALIST)
IsaLists ==
  { << "s", "p", "a", "r", "c", "v", "9", "+", "v", "i", "s", "2", " ", "s", "p", "a", "r", "c", "v", "9", "+", "v", "i", "s", " ", "s", "p", "a", "r", "c", "v", "9", " ", "s", "p", "a", "r", "c", "v", "8", "p", "l", "u", "s", "+", "v", "i", "s", "2", " ", "s", "p", "a", "r", "c", "v", "8", "p", "l", "u", "s", " ", "s", "p", "a", "r", "c", "v", "8", " ", "s", "p", "a", "r", "c", "v", "8", "-", "f", "s", "m", "u", "l", "d", " ", "s", "p", "a", "r", "c", "v", "7", " ", "s", "p", "a", "r", "c" >>,
    << "s", "p", "a", "r", "c", "v", "8", "p", "l", "u", "s", "+", "v", "i", "s", " ", "s", "p", "a", "r", "c", "v", "8", "p", "l", "u", "s", " ", "s", "p", "a", "r", "c", "v", "8", " ", "s", "p", "a", "r", "c", "v", "8", "-", "f", "s", "m", "u", "l", "d", " ", "s", "p", "a", "r", "c", "v", "7", " ", "s", "p", "a", "r", "c" >>,
    << "s", "p", "a", "r", "c", "v", "8", "-", "f", "s", "m", "u", "l", "d", " ", "s", "p", "a", "r", "c", "v", "7", " ", "s", "p", "a", "r", "c" >>,
    << "s", "p", "a", "r", "c", "v", "8", " ", "s", "p", "a", "r", "c", "v", "7", " ", "s", "p", "a", "r", "c" >>,
    << "s", "p", "a", "r", "c", "v", "7", " ", "s", "p", "a", "r", "c" >>,
    << "s", "p", "a", "r", "c", "8" >>,
    << "a", "m", "d", "6", "4", " ", "i", "3", "8", "6", " ", "v", "i", "s", "2" >> }

IsalistAnswers ==
  { SysinfoAnswer(Len(b) + 1, TRUE, Len(b) + 1, b) : b \in IsaLists }
    \cup { SysinfoAnswer(Len(b) + 1, TRUE, Len(b), b) : b \in IsaLists }
    \cup { SysinfoAnswer(7, FALSE, 0, <<>>), SysinfoAnswer(-1, FALSE, -1, <<>>) }

\* what the kstat chain holds for cpu_info
ImplStrings ==
  { << "S", "P", "A", "R", "C", "6", "4", "-", "V", "I", "I" >>,
    << "s", "p", "a", "r", "c", "-", "m", "7" >>,
    << "S", "P", "A", "R", "C", "-", "T", "4" >>,
    << "s", "p", "a", "r", "c", "-", "t", "4" >>,
    << "U", "l", "t", "r", "a", "S", "P", "A", "R", "C", "-", "T", "1" >>,
    << "U", "l", "t", "r", "a", "S", "P", "A", "R", "C", "-", "I", "I", "I", "+" >>,
    << "(", "u", "n", "s", "u", "p", "p", "o", "r", "t", "e", "d", ")" >>,
    << "S", "P", "A", "R", "C", "-", "T", "1", " ", "S", "P", "A", "R", "C", "6", "4", "-", "X" >>,
    << "S", "p", "a", "r", "c", "-", "M", "5", " ", "(", "s", "p", "a", "r", "c", "-", "t", "1", ")" >> }

Kstats ==
  { Kstat(FALSE, FALSE, FALSE, FALSE, <<>>),
    Kstat(TRUE, FALSE, FALSE, FALSE, <<>>),
    Kstat(TRUE, TRUE, FALSE, FALSE, <<>>),
    Kstat(TRUE, TRUE, TRUE, FALSE, <<>>),
    Kstat(TRUE, TRUE, TRUE, TRUE, << Named("brand", KSTAT_DATA_STRING, S_SPARC) >>),
    Kstat(TRUE, TRUE, TRUE, TRUE,
          << Named("implementation", KSTAT_DATA_UINT64, S_SPARC_T) >>) }
  \cup { Kstat(TRUE, TRUE, TRUE, TRUE,
               << Named("brand", KSTAT_DATA_STRING, S_SPARC_T1),
                  Named("implementation", KSTAT_DATA_STRING, str),
                  Named("implementation", KSTAT_DATA_CHAR, S_SPARC64) >>)
         : str \in ImplStrings }
  \cup { Kstat(TRUE, TRUE, TRUE, TRUE,
               << Named("implementation", KSTAT_DATA_CHAR, S_SPARC_T1) >>) }

\* ------------------------------------------------------------------------
\* State
\* ------------------------------------------------------------------------
VARIABLES
  pc,              \* position in platform_features / the PICL constructor
  debug,           \* the build has assertions compiled in (ASSERT)
  baseline,        \* the argument of platform_features
  features,        \* the local accumulator of platform_features
  implementation,  \* the label of the kstat block (a local of that block)
  L2_global,       \* VM_Version::_L2_data_cache_line_size
  dl_handle,       \* PICL::_dl_handle
  bound,           \* the PICL function pointers that are resolved
  L1_size,         \* PICL::_L1_data_cache_line_size
  L2_size,         \* PICL::_L2_data_cache_line_size
  l1,              \* CPUVisitor::_l1_visitor
  l2,              \* CPUVisitor::_l2_visitor
  limit,           \* CPUVisitor::_limit
  l2_name,         \* the static l2_data_cache_line_property_name
  cb_ret,          \* what the callback last returned to the tree walk
  abort_msg,       \* the assertion or guarantee that stopped the VM
  violated,        \* history: assertions whose condition was false
  events,          \* history: library events of the probe, in order
  unsafe_call,     \* history: a call through an unbound pointer or closed handle
  assembled,       \* history: the features when the PICL constructor was called
  cpu_class,       \* history: the class name given to the tree walk
  budget,          \* history: the limit the CPUVisitor was constructed with
  nvisited,        \* history: number of times CPUVisitor::visit ran
  seen1,           \* history: the L1 readings of the nodes visited
  seen2,           \* history: the L2 readings of the nodes visited
  unread1,         \* history: L1 readings of the nodes the walk never presented
  other_name,      \* history: a node visited after the first had no L2 reading
                   \* under the memoized name and had one under the other name
  cpu_count, \* history: what os::processor_count() returned at line 204
  first_tried,     \* history: the names the L2 tracker was visited with on
                   \* the first node of the walk, in order
  avs,             \* history: << avs[0], the count getisax returned, avs[1] >>
  isalist,         \* history: << the SI_ISALIST answer the legacy block has
                   \* just parsed >> (<<>> before it, and once line 422 has run)
  kstat            \* history: << the kstat chain the kstat block has just
                   \* read >> (<<>> before it, and once the probe has started)

vars ==
  << pc, debug, baseline, features, implementation, L2_global, dl_handle,
     bound, L1_size, L2_size, l1, l2, limit, l2_name, cb_ret,
     abort_msg, violated, events, unsafe_call, assembled, cpu_class, budget,
     nvisited, seen1, seen2, unread1, other_name, cpu_count,
     first_tried, avs, isalist, kstat >>

piclVars ==
  << dl_handle, bound, L1_size, L2_size, l1, l2, limit, l2_name, cb_ret,
     events, unsafe_call, assembled, cpu_class, budget, nvisited,
     seen1, seen2, unread1, other_name, cpu_count, first_tried >>

walkVars ==
  << l1, l2, limit, l2_name, cb_ret, cpu_class, budget, nvisited,
     seen1, seen2, unread1, other_name, cpu_count, first_tried >>

inputVars == << avs, isalist, kstat >>

Range(seq) == {seq[i] : i \in DOMAIN seq}

\* The values a line-size property reads as in the model's device nodes.
LineSizes == {32, 64}

Init ==
  /\ pc = "entry"
  /\ debug \in BOOLEAN
  /\ baseline \in Baselines
  /\ features = baseline
  /\ implementation = <<>>
  /\ L2_global = 0
  /\ dl_handle = NULL
  /\ bound = {}
  /\ L1_size = 0
  /\ L2_size = 0
  /\ l1 = UniqueValueVisitor
  /\ l2 = UniqueValueVisitor
  /\ limit = 0
  /\ l2_name = NULL
  /\ cb_ret = PICL_WALK_CONTINUE
  /\ abort_msg = ""
  /\ violated = {}
  /\ events = <<>>
  /\ unsafe_call = FALSE
  /\ assembled = {}
  /\ cpu_class = ""
  /\ budget = 0
  /\ nvisited = 0
  /\ seen1 = {}
  /\ seen2 = {}
  /\ unread1 = {}
  /\ other_name = FALSE
  /\ cpu_count = 0
  /\ first_tried = <<>>
  /\ avs = <<>>
  /\ isalist = <<>>
  /\ kstat = <<>>

\* A failed guarantee, or a failed assert of a debug build, stops the VM.
Abort(msg) ==
  /\ pc' = "aborted"
  /\ abort_msg' = msg
  /\ violated' = violated \cup {msg}
  /\ UNCHANGED << debug, baseline, features, implementation, L2_global >>
  /\ UNCHANGED piclVars

\* The step goes on to pc next; failed are the assertions it violated,
\* which a product build does not evaluate.
Continue(next, failed) ==
  /\ pc' = next
  /\ abort_msg' = abort_msg
  /\ violated' = violated \cup Range(failed)

Stops(failed) == debug /\ failed # <<>>

\* ------------------------------------------------------------------------
\* VM_Version::platform_features: feature assembly
\* ------------------------------------------------------------------------
\* lines 299-302: supports_getisax() is true; do_sysinfo(SI_ARCHITECTURE_32)
SysinfoArch32 ==
  /\ pc = "entry"
  /\ \E r \in SysinfoAnswers :
       LET d == do_sysinfo(r, "sparc", features, v8_instructions_m)
       IN IF d.guarantee_failed
            THEN Abort("must be supported")
            ELSE /\ features' = d.features
                 /\ Continue("arch64", <<>>)
                 /\ UNCHANGED << debug, baseline, implementation, L2_global >>
                 /\ UNCHANGED piclVars
  /\ UNCHANGED inputVars

\* line 305: do_sysinfo(SI_ARCHITECTURE_64)
SysinfoArch64 ==
  /\ pc = "arch64"
  /\ \E r \in SysinfoAnswers :
       LET d == do_sysinfo(r, "sparcv9", features, generic_v9_m)
       IN IF d.guarantee_failed
            THEN Abort("must be supported")
            ELSE /\ features' = d.features
                 /\ Continue("getisax", <<>>)
                 /\ UNCHANGED << debug, baseline, implementation, L2_global >>
                 /\ UNCHANGED piclVars
  /\ UNCHANGED inputVars

\* lines 308-383: getisax and the mapping of its words
Getisax ==
  /\ pc = "getisax"
  /\ \E a \in GetisaxAnswers :
       /\ features' = getisax_features(features, a[1], a[2], a[3])
       /\ avs' = a
       /\ UNCHANGED << isalist, kstat >>
       /\ Continue("machine", <<>>)
       /\ UNCHANGED << debug, baseline, implementation, L2_global >>
       /\ UNCHANGED piclVars

\* lines 385-419: supports_getisax() is false; the legacy SI_ISALIST parse
LegacyIsalist ==
  /\ pc = "entry"
  /\ \E r \in IsalistAnswers :
       /\ features' = legacy_isalist(r, features)
       /\ isalist' = << r >>
       /\ UNCHANGED << avs, kstat >>
       /\ Continue("machine", <<>>)
       /\ UNCHANGED << debug, baseline, implementation, L2_global >>
       /\ UNCHANGED piclVars

\* line 422: do_sysinfo(SI_MACHINE)
SysinfoMachine ==
  /\ pc = "machine"
  /\ \E r \in SysinfoAnswers :
       LET d == do_sysinfo(r, "sun4v", features, sun4v_m)
       IN IF d.guarantee_failed
            THEN Abort("must be supported")
            ELSE /\ features' = d.features
                 /\ Continue("kstat", <<>>)
                 /\ UNCHANGED << debug, baseline, implementation, L2_global >>
                 /\ UNCHANGED piclVars
  /\ isalist' = <<>>
  /\ UNCHANGED << avs, kstat >>

\* lines 424-494: the kstat block, up to its closing assert.
\* kstat_lookup and kstat_close on the NULL handle of a failed kstat_open
\* are undefined: the process faults, or the lookup finds nothing.
KstatImplementation ==
  /\ pc = "kstat"
  /\ \E ks \in Kstats, faults \in BOOLEAN :
       LET k == kstat_implementation(features, ks)
           failed == IF k.implementation = S_UNKNOWN
                       THEN << "unknown cpu info (changed kstat interface?)" >>
                       ELSE <<>>
       IN /\ kstat' = << ks >>
          /\ UNCHANGED << avs, isalist >>
          /\ IF faults
            THEN ~ks.kc_ok /\ Abort("kstat_lookup(NULL)")
             ELSE IF Stops(failed)
               THEN Abort(failed[1])
               ELSE /\ features' = k.features
                    /\ implementation' = k.implementation
                    /\ Continue("picl", failed)
                    /\ UNCHANGED << debug, baseline, L2_global >>
                    /\ UNCHANGED piclVars

\* ------------------------------------------------------------------------
\* PICL::PICL(is_fujitsu, is_sun4v), called at line 497
\* ------------------------------------------------------------------------
is_fujitsu == (assembled \cap sparc64_family_m) # {}
is_sun4v == (assembled \cap sun4v_m) # {}

\* A call through the pointers fns is safe when the library is open and
\* every one of them was resolved.
Unsafe(fns) == dl_handle = NULL \/ ~(fns \subseteq bound)

\* lines 192-195: member initialisation and open_library()
PICL_open ==
  /\ pc = "picl"
  /\ \E dl_ok \in BOOLEAN, avail \in SUBSET Range(PICL_SYMBOLS) :
       LET o == open_library(dl_ok, avail)
       IN IF Stops(o.failed)
            THEN /\ pc' = "aborted"
                 /\ abort_msg' = o.failed[1]
                 /\ violated' = violated \cup {o.failed[1]}
                 /\ dl_handle' = "libpicl"
                 /\ bound' = o.bound
                 /\ events' = << "dlopen" >>
                 /\ assembled' = features
                 /\ UNCHANGED << implementation, L1_size, L2_size >>
            ELSE /\ Continue(IF o.ret THEN "initialize" ELSE "return", o.failed)
                 /\ dl_handle' = o.handle
                 /\ bound' = o.bound
                 /\ events' = o.events
                 /\ assembled' = features
                 /\ implementation' = <<>>
                 /\ L1_size' = 0
                 /\ L2_size' = 0
  /\ kstat' = <<>>
  /\ UNCHANGED << avs, isalist >>
  /\ UNCHANGED << debug, baseline, features, L2_global, unsafe_call >>
  /\ UNCHANGED walkVars

\* an early return when _picl_initialize() fails
AfterInitialize_return(ok) == IF ok THEN "get_root" ELSE "return"

\* lines 196, 214: where the constructor goes after _picl_initialize()
AfterInitialize(ok) == IF ok THEN "get_root" ELSE "close"

\* lines 198, 212: where the constructor goes after _picl_get_root()
AfterGetRoot(ok) == IF ok THEN "walk_start" ELSE "shutdown"

\* line 196: _picl_initialize()
PICL_initialize ==
  /\ pc = "initialize"
  /\ \E ok \in BOOLEAN :
       /\ events' = Append(events, IF ok THEN "picl_initialize"
                                   ELSE "picl_initialize_failed")
       /\ Continue(AfterInitialize(ok), <<>>)
  /\ unsafe_call' = (unsafe_call \/ Unsafe({"picl_initialize"}))
  /\ UNCHANGED << debug, baseline, features, implementation, L2_global,
                  dl_handle, bound, L1_size, L2_size, assembled >>
  /\ UNCHANGED walkVars
  /\ UNCHANGED inputVars

\* line 198: _picl_get_root(&rooth)
PICL_get_root ==
  /\ pc = "get_root"
  /\ \E ok \in BOOLEAN :
       /\ events' = Append(events, IF ok THEN "picl_get_root"
                                   ELSE "picl_get_root_failed")
       /\ Continue(AfterGetRoot(ok), <<>>)
  /\ unsafe_call' = (unsafe_call \/ Unsafe({"picl_get_root"}))
  /\ UNCHANGED << debug, baseline, features, implementation, L2_global,
                  dl_handle, bound, L1_size, L2_size, assembled >>
  /\ UNCHANGED walkVars
  /\ UNCHANGED inputVars

\* WalkLimit sampling a single node on every sun4v machine
WalkLimit_sun4v(fujitsu, sun4v, processor_count) ==
  IF sun4v THEN 1 ELSE processor_count

\* line 204: the limit the CPUVisitor is constructed with
WalkLimit(fujitsu, sun4v, processor_count) ==
  IF sun4v /\ ~fujitsu THEN 1 ELSE processor_count

\* lines 199-205: the class, the CPUVisitor, and the call of
\* _picl_walk_tree_by_class.
PICL_walk_start ==
  /\ pc = "walk_start"
  /\ \E n \in 1..MaxCPUs :
       /\ cpu_count' = n
       /\ limit' = WalkLimit(is_fujitsu, is_sun4v, n)
       /\ budget' = WalkLimit(is_fujitsu, is_sun4v, n)
  /\ cpu_class' = IF is_fujitsu THEN "core" ELSE "cpu"
  /\ l1' = UniqueValueVisitor
  /\ l2' = UniqueValueVisitor
  /\ cb_ret' = PICL_WALK_CONTINUE
  /\ events' = Append(events, "picl_walk_tree_by_class")
  /\ unsafe_call' = (unsafe_call \/ Unsafe({"picl_walk_tree_by_class"}))
  /\ Continue("walk", <<>>)
  /\ UNCHANGED << debug, baseline, features, implementation, L2_global,
                  dl_handle, bound, L1_size, L2_size, assembled, l2_name,
                  nvisited, seen1, seen2, unread1, other_name, first_tried >>
  /\ UNCHANGED inputVars

\* The readings a node has under names: what get_int_property returns for
\* them when it succeeds.
Readings(node, names) ==
  { get_int_property(node[nm]).val :
      nm \in {x \in names : get_int_property(node[x]).rc = PICL_SUCCESS} }

\* The property names under which the walk looks for the L2 line size on a
\* node: on the first visit the primary name and, if reading it fails, the
\* fallback name; afterwards the memoized name.
L2Names(name, node) ==
  IF name # NULL THEN {name}
  ELSE IF get_int_property(node[L2Primary]).rc = PICL_SUCCESS
    THEN {L2Primary}
  ELSE {L2Primary, L2Fallback}

\* node has no reading under the memoized name and one under the other name
OtherNameOnly(name, node) ==
  /\ name # NULL
  /\ Readings(node, {name}) = {}
  /\ Readings(node, {L2Primary, L2Fallback} \ {name}) # {}

\* lines 151-181: the library presents node to PICL_visit_cpu_helper, that
\* is to CPUVisitor::visit.
VisitNode(node) ==
  /\ pc = "walk"
  /\ cb_ret = PICL_WALK_CONTINUE
  /\ nvisited < MaxNodes
  /\ UNCHANGED inputVars
  /\ LET r == CPUVisitor_visit(l1, l2, limit, l2_name, node)
     IN IF Stops(r.failed)
          THEN Abort(r.failed[1])
          ELSE /\ l1' = r.l1
               /\ l2' = r.l2
               /\ limit' = r.limit
               /\ l2_name' = r.name
               /\ cb_ret' = r.ret
               /\ nvisited' = nvisited + 1
               /\ seen1' = seen1 \cup Readings(node, {L1Name})
               /\ seen2' = seen2 \cup Readings(node, L2Names(l2_name, node))
               /\ other_name' = (other_name \/ OtherNameOnly(l2_name, node))
               /\ first_tried' = IF nvisited = 0 THEN r.l2tried
                                  ELSE first_tried
               /\ unsafe_call' =
                    (unsafe_call \/ Unsafe({"picl_get_prop_by_name",
                                            "picl_get_propinfo",
                                            "picl_get_propval"}))
               /\ Continue("walk", r.failed)
               /\ UNCHANGED << debug, baseline, features, implementation,
                               L2_global, dl_handle, bound, L1_size, L2_size,
                               events, assembled, cpu_class, budget, unread1,
                               cpu_count >>

\* The walk presents the next node of the class; the tree has at most
\* MaxNodes of them.
Visit == \E node \in Nodes : VisitNode(node)

\* ReadOut testing !is_initial() for is_assigned()
ReadOut_any(t, field) == IF ~is_initial(t) THEN t.value ELSE field

\* lines 206-211: the field takes the tracker's value if there is one
ReadOut(t, field) == IF is_assigned(t) THEN t.value ELSE field

\* lines 206-211: the assertions of the calls of value() in the read-out
ReadOutFailed(t) == IF is_assigned(t) THEN value_failed(t) ELSE <<>>

\* lines 205-211: the walk returns (the tree has no further node of the
\* class, or the callback said PICL_WALK_TERMINATE) and the constructor
\* reads the trackers out.
\* rest: the L1 readings of the nodes of the class that were never
\* presented; there are none when the walk ran out of nodes.
PICL_readout ==
  /\ pc = "walk"
  /\ \E rest \in SUBSET LineSizes :
       /\ Cardinality(rest) <= MaxNodes - nvisited
       /\ cb_ret = PICL_WALK_CONTINUE => rest = {}
       /\ unread1' = rest
  /\ L1_size' = ReadOut(l1, L1_size)
  /\ L2_size' = ReadOut(l2, L2_size)
  /\ events' = Append(events, "readout")
  /\ Continue("shutdown", ReadOutFailed(l1) \o ReadOutFailed(l2))
  /\ UNCHANGED << debug, baseline, features, implementation, L2_global,
                  dl_handle, bound, l1, l2, limit, l2_name, cb_ret,
                  unsafe_call, assembled, cpu_class, budget, nvisited, seen1,
                  seen2, other_name, cpu_count, first_tried >>
  /\ UNCHANGED inputVars

\* line 213: _picl_shutdown()
PICL_shutdown ==
  /\ pc = "shutdown"
  /\ events' = Append(events, "picl_shutdown")
  /\ unsafe_call' = (unsafe_call \/ Unsafe({"picl_shutdown"}))
  /\ Continue("close", <<>>)
  /\ UNCHANGED << debug, baseline, features, implementation, L2_global,
                  dl_handle, bound, L1_size, L2_size, assembled >>
  /\ UNCHANGED walkVars
  /\ UNCHANGED inputVars

\* line 215: close_library()
PICL_close ==
  /\ pc = "close"
  /\ LET c == close_library(dl_handle)
     IN IF Stops(c.failed)
          THEN Abort(c.failed[1])
          ELSE /\ dl_handle' = c.handle
               /\ events' = events \o c.events
               /\ Continue("return", c.failed)
               /\ UNCHANGED << debug, baseline, features, implementation,
                               L2_global, bound, L1_size, L2_size, unsafe_call,
                               assembled >>
               /\ UNCHANGED walkVars
  /\ UNCHANGED inputVars

\* Return storing the L1 line size in the process-wide field
Return_L1 ==
  /\ pc = "return"
  /\ L2_global' = L1_size
  /\ Continue("done", <<>>)
  /\ UNCHANGED << debug, baseline, features, implementation >>
  /\ UNCHANGED piclVars
  /\ UNCHANGED inputVars

\* lines 498-500: store the L2 line size and return features
Return ==
  /\ pc = "return"
  /\ L2_global' = L2_size
  /\ Continue("done", <<>>)
  /\ UNCHANGED << debug, baseline, features, implementation >>
  /\ UNCHANGED piclVars
  /\ UNCHANGED inputVars

Next ==
  \/ SysinfoArch32
  \/ SysinfoArch64
  \/ Getisax
  \/ LegacyIsalist
  \/ SysinfoMachine
  \/ KstatImplementation
  \/ PICL_open
  \/ PICL_initialize
  \/ PICL_get_root
  \/ PICL_walk_start
  \/ Visit
  \/ PICL_readout
  \/ PICL_shutdown
  \/ PICL_close
  \/ Return

Spec == Init /\ [][Next]_vars

\* ------------------------------------------------------------------------
\* Properties
\* ------------------------------------------------------------------------
Has(e) == \E i \in DOMAIN events : events[i] = e
Count(e) == Cardinality({i \in DOMAIN events : events[i] = e})
Returned == pc \in {"return", "done"}
AllBound == bound = Range(PICL_SYMBOLS)

\* The tracker t is where the readings so far put it: INITIAL without a
\* reading, ASSIGNED with the one value read, INCONSISTENT once two differ.
TrackerMatches(t, seen) ==
  /\ seen = {} => is_initial(t)
  /\ \A v \in seen : seen = {v} => is_assigned(t) /\ t.value = v
  /\ Cardinality(seen) >= 2 => is_inconsistent(t)

\* C1: each tracker is ASSIGNED with the common value while the successful
\* readings of the visited nodes are all equal, INCONSISTENT as soon as two
\* of them differ, and an INCONSISTENT tracker stays INCONSISTENT whatever
\* the later nodes hold.
C1_TrackerFollowsReadings ==
  /\ [](TrackerMatches(l1, seen1) /\ TrackerMatches(l2, seen2))
  /\ [][/\ is_inconsistent(l1) => is_inconsistent(l1')
        /\ is_inconsistent(l2) => is_inconsistent(l2')]_vars

C1_Witness ==
  /\ pc = "done"
  /\ nvisited >= 3
  /\ is_inconsistent(l1)
  /\ is_assigned(l2) /\ l2.value = 64

\* C2: the number of visits of a walk never exceeds the limit the
\* CPUVisitor was constructed with, and the visit that reaches it returns
\* PICL_WALK_TERMINATE.
C2_VisitsWithinBudget ==
  Has("picl_walk_tree_by_class") =>
    /\ budget >= 1
    /\ nvisited <= budget
    /\ nvisited = budget => cb_ret = PICL_WALK_TERMINATE

C2_Witness ==
  /\ pc = "done"
  /\ budget >= 2
  /\ nvisited = budget
  /\ limit = 0

\* C3: the visit that leaves both trackers INCONSISTENT returns
\* PICL_WALK_TERMINATE and does not decrement _limit, and no node is visited
\* once the callback has returned PICL_WALK_TERMINATE.
C3_BothInconsistentTerminates ==
  [][/\ (nvisited' = nvisited + 1 /\ is_inconsistent(l1')
           /\ is_inconsistent(l2'))
          => (cb_ret' = PICL_WALK_TERMINATE /\ limit' = limit)
     /\ cb_ret = PICL_WALK_TERMINATE => nvisited' = nvisited]_vars

C3_Witness ==
  /\ pc = "done"
  /\ is_inconsistent(l1) /\ is_inconsistent(l2)
  /\ limit >= 1
  /\ nvisited < MaxNodes

\* C4: the static name is NULL before the first visit, one of the two names
\* after it and never reassigned afterwards; a later node without a reading
\* under the memoized name leaves the L2 tracker as it is, also when the
\* node has the other name.
C4_NameChosenOnce ==
  /\ [](nvisited = 0 <=> l2_name = NULL)
  /\ [][/\ l2_name # NULL => l2_name' = l2_name
        /\ \A node \in Nodes :
             (pc = "walk" /\ l2_name # NULL
                /\ Readings(node, {l2_name}) = {}
                /\ VisitNode(node)) => l2' = l2]_vars

C4_Witness ==
  /\ pc = "done"
  /\ other_name
  /\ l2_name = L2Primary
  /\ is_assigned(l2)

\* C5 as claimed: the final L1 size is v when all nodes of the class report
\* v, and 0 when two nodes of the class report different sizes, visited or
\* not.
C5_AllNodesDecide ==
  (Returned /\ Has("readout")) =>
    /\ \A v \in seen1 : (seen1 \cup unread1 = {v}) => L1_size = v
    /\ Cardinality(seen1 \cup unread1) >= 2 => L1_size = 0

\* C5, amended: the final L1 size is decided by the nodes the walk visits:
\* v when their successful readings are all v, 0 when two of them differ or
\* none has a reading.
C5_VisitedNodesDecide ==
  (Returned /\ Has("readout")) =>
    /\ seen1 = {} => L1_size = 0
    /\ \A v \in seen1 : seen1 = {v} => L1_size = v
    /\ Cardinality(seen1) >= 2 => L1_size = 0

C5_Witness ==
  /\ pc = "done"
  /\ nvisited >= 3
  /\ seen1 = {32, 64}
  /\ L1_size = 0
  /\ L2_size = 64

\* C6: when dlopen fails the probe calls nothing in the library and does
\* not call close_library, both line sizes are 0 and the features are those
\* assembled before the probe.
C6_AbsentLibrary ==
  Has("dlopen_null") =>
    /\ Returned
    /\ events = << "dlopen_null" >>
    /\ nvisited = 0
    /\ ~unsafe_call
    /\ dl_handle = NULL
    /\ L1_size = 0 /\ L2_size = 0
    /\ pc = "done" => L2_global = 0
    /\ features = assembled

C6_Witness ==
  /\ pc = "done"
  /\ Has("dlopen_null")
  /\ sun4v_m \subseteq features

SymbolMissing == Has("dlopen") /\ ~AllBound

\* C7 as claimed: with an entry point missing the probe calls nothing in
\* the library, leaves both line sizes 0 and returns to its caller.
C7_MissingSymbolReturns ==
  SymbolMissing =>
    /\ Returned
    /\ events = << "dlopen", "dlclose" >>
    /\ nvisited = 0 /\ ~unsafe_call
    /\ L1_size = 0 /\ L2_size = 0
    /\ pc = "done" => L2_global = 0

\* C7, amended: with an entry point missing the probe calls nothing in the
\* library and leaves both line sizes 0; a product build closes the library
\* and returns to its caller, a debug build stops at the assertion
\* "unexpected PICL API change" before close_library.
C7_MissingSymbolDegrades ==
  SymbolMissing =>
    /\ nvisited = 0 /\ ~unsafe_call
    /\ L1_size = 0 /\ L2_size = 0
    /\ pc = "done" => L2_global = 0
    /\ ~debug => /\ Returned
                 /\ events = << "dlopen", "dlclose" >>
                 /\ dl_handle = NULL
    /\ debug => /\ pc = "aborted"
                /\ abort_msg = "unexpected PICL API change"
                /\ events = << "dlopen" >>

C7_Witness ==
  /\ pc = "done"
  /\ SymbolMissing
  /\ "picl_initialize" \in bound
  /\ "picl_get_propinfo" \notin bound

Bound == Has("dlopen") /\ AllBound

\* C8 as claimed: once the library is bound, initialize, get_root, the walk,
\* the read-out, shutdown and close are all executed before the probe
\* returns.
C8_AllStepsRun ==
  (Returned /\ Bound) =>
    /\ Has("picl_initialize") \/ Has("picl_initialize_failed")
    /\ Has("picl_get_root") \/ Has("picl_get_root_failed")
    /\ Has("picl_walk_tree_by_class")
    /\ Has("readout")
    /\ Has("picl_shutdown")
    /\ Has("dlclose")

\* C8, amended: once the library is bound, a probe that returns has called
\* picl_initialize and close_library; it has called picl_get_root and
\* picl_shutdown exactly when picl_initialize succeeded, and has walked the
\* tree and read the trackers out exactly when picl_get_root succeeded too.
C8_StepsFollowSuccess ==
  (Returned /\ Bound) =>
    /\ Has("picl_initialize") \/ Has("picl_initialize_failed")
    /\ Has("dlclose")
    /\ Has("picl_shutdown") <=> Has("picl_initialize")
    /\ (Has("picl_get_root") \/ Has("picl_get_root_failed"))
         <=> Has("picl_initialize")
    /\ Has("picl_walk_tree_by_class") <=> Has("picl_get_root")
    /\ Has("readout") <=> Has("picl_get_root")

C8_Witness ==
  /\ pc = "done"
  /\ Bound
  /\ Has("picl_get_root_failed")
  /\ Has("picl_shutdown")

\* C9: the library is closed exactly once before a probe that opened it
\* returns, close_library never runs on a NULL handle, and no call through
\* a library pointer happens outside the open handle.
C9_HandleLifecycle ==
  /\ Count("dlopen") <= 1
  /\ Count("dlclose") <= Count("dlopen")
  /\ Returned => Count("dlclose") = Count("dlopen")
  /\ dl_handle = NULL <=> Count("dlclose") = Count("dlopen")
  /\ "library should be open" \notin violated
  /\ ~unsafe_call

C9_Witness ==
  /\ pc = "done"
  /\ Bound
  /\ nvisited >= 2
  /\ Has("picl_shutdown")
  /\ Count("dlclose") = 1

\* C10: the accumulated features always contain the baseline, and no step
\* of platform_features clears a bit.
C10_Monotonic ==
  /\ [](baseline \subseteq features)
  /\ [][features \subseteq features']_vars

C10_Witness ==
  /\ pc = "done"
  /\ baseline # {}
  /\ sparc64_family_m \subseteq features
  /\ vis2_instructions_m \subseteq features

\* ------------------------------------------------------------------------
\* The kstat block, seen from the implementation string it read
\* ------------------------------------------------------------------------
\* s contains marker, in any letter case
Mentions(s, marker) ==
  \E i \in 1..Len(s) :
    /\ i + Len(marker) - 1 <= Len(s)
    /\ \A k \in 1..Len(marker) : toupper(s[i + k - 1]) = marker[k]

\* the kstat block has just ended, having read the implementation string
ReadImplementation ==
  pc = "picl" /\ kstat # <<>> /\ kstat_string(kstat[1]) # NoString

\* C11 as claimed: every implementation string with the SPARC-M marker gives
\* M_family_m and T_family_m, and every one with the SPARC-T1 marker gives
\* T_family_m and T1_model_m.
C11_MarkerGivesBits ==
  ReadImplementation =>
    LET s == kstat_string(kstat[1])
    IN /\ Mentions(s, S_SPARC_M)
            => (M_family_m \cup T_family_m) \subseteq features
       /\ Mentions(s, S_SPARC_T1)
            => (T_family_m \cup T1_model_m) \subseteq features

\* C11, amended: an implementation string with the SPARC-M marker and
\* without SPARC64 gives M_family_m and T_family_m; one with the SPARC-T1
\* marker and with neither SPARC64 nor SPARC-M gives T_family_m and
\* T1_model_m.
C11_MarkerGivesBitsByPriority ==
  ReadImplementation =>
    LET s == kstat_string(kstat[1])
    IN /\ (Mentions(s, S_SPARC_M) /\ ~Mentions(s, S_SPARC64))
            => (M_family_m \cup T_family_m) \subseteq features
       /\ (Mentions(s, S_SPARC_T1) /\ ~Mentions(s, S_SPARC64)
             /\ ~Mentions(s, S_SPARC_M))
            => (T_family_m \cup T1_model_m) \subseteq features

C11_Witness ==
  /\ ReadImplementation
  /\ kstat_string(kstat[1]) = << "s", "p", "a", "r", "c", "-", "m", "7" >>
  /\ baseline = {}
  /\ features \cap (M_family_m \cup T_family_m \cup T1_model_m)
       = M_family_m \cup T_family_m

\* ------------------------------------------------------------------------
\* The structured (getisax) path
\* ------------------------------------------------------------------------
\* the capability word with exactly the MUL32, DIV32, VIS and VIS2 bits
AvFour == AV_SPARC_MUL32 + AV_SPARC_DIV32 + AV_SPARC_VIS + AV_SPARC_VIS2

FourBits ==
  hardware_mul32_m \cup hardware_div32_m \cup vis1_instructions_m
    \cup vis2_instructions_m

\* what the sysinfo queries and the kstat block can contribute
OtherSources ==
  v8_instructions_m \cup generic_v9_m \cup sun4v_m \cup sparc64_family_m
    \cup M_family_m \cup T_family_m \cup T1_model_m

\* C12 as claimed: with the capability word AvFour the returned mask is the
\* baseline with exactly the four bits added.
C12_ExactlyFourAdded ==
  (pc = "done" /\ avs # <<>> /\ avs[1] = AvFour) =>
    features = baseline \cup FourBits

\* C12, amended: with the capability word AvFour the mapping of the word
\* adds exactly the four bits to the mask accumulated so far, and the
\* returned mask is the baseline with the four bits and with nothing else
\* than what the sysinfo queries and the kstat block contribute.
C12_FourAddedByGetisax ==
  /\ []((pc = "done" /\ avs # <<>> /\ avs[1] = AvFour) =>
          /\ baseline \cup FourBits \subseteq features
          /\ features \subseteq baseline \cup FourBits \cup OtherSources)
  /\ [][(avs = <<>> /\ avs' # <<>> /\ avs'[1] = AvFour) =>
          features' = features \cup FourBits]_vars

C12_Witness ==
  /\ pc = "done"
  /\ avs # <<>> /\ avs[1] = AvFour
  /\ baseline = {}
  /\ features = FourBits \cup v8_instructions_m \cup sun4v_m

\* ------------------------------------------------------------------------
\* Failures of the data sources
\* ------------------------------------------------------------------------
\* the assertions of this file that a failing data source makes false
SourceAssertions ==
  { "unknown cpu info (changed kstat interface?)",
    "unexpected PICL API change",
    "Invalid property type",
    "Unexpected integer property size" }

\* the answer r of sysinfo does not deliver a string
NoList(r) == ~r.malloc_ok \/ r.size = -1 \/ r.size2 # r.size

\* C13 as claimed: whatever fails, platform_features is never stopped by a
\* guarantee or an assertion, and no assertion is violated.
C13_NeverStopped ==
  pc # "aborted" /\ violated = {}

\* C13, amended: a product build is stopped only by the guarantee of
\* do_sysinfo (sysinfo answering -1) or by the fault of kstat_lookup on the
\* NULL handle of a failed kstat_open; a debug build is stopped in addition
\* by the assertions a failing source makes false. In every other state
\* platform_features goes on, and a source that fails (the SI_ISALIST
\* query, the kstat chain, dlopen, a missing entry point) contributes no
\* bit.
C13_StoppedOnlyByGuarantee ==
  /\ [](pc = "aborted" =>
          \/ abort_msg \in {"must be supported", "kstat_lookup(NULL)"}
          \/ debug /\ abort_msg \in SourceAssertions)
  /\ [](~debug => violated \subseteq
          SourceAssertions \cup {"must be supported", "kstat_lookup(NULL)"})
  /\ [](pc \notin {"done", "aborted"} => ENABLED Next)
  /\ [][/\ (isalist = <<>> /\ isalist' # <<>> /\ NoList(isalist'[1]))
             => features' = features
        /\ (kstat = <<>> /\ kstat' # <<>>
              /\ kstat_string(kstat'[1]) = NoString)
             => features' = features
        /\ pc \in {"picl", "initialize", "get_root", "walk_start", "walk",
                   "shutdown", "close", "return"}
             => features' = features]_vars

C13_Witness ==
  /\ pc = "done"
  /\ ~debug
  /\ violated = { "unknown cpu info (changed kstat interface?)",
                  "unexpected PICL API change" }
  /\ features = baseline
  /\ L2_global = 0

\* ------------------------------------------------------------------------
\* The first node of the walk
\* ------------------------------------------------------------------------
\* C14: on the first node visited the L2 tracker is visited with the primary
\* name; it is visited with the fallback name on that node exactly when
\* reading the primary name failed; the name memoized is the primary name
\* when that read succeeded and the fallback name otherwise.
C14_FirstNodeChoosesName ==
  [][\A node \in Nodes :
       (nvisited = 0 /\ pc = "walk" /\ pc' = "walk" /\ VisitNode(node)) =>
         LET primary_ok == Readings(node, {L2Primary}) # {}
             read == Readings(node, IF primary_ok THEN {L2Primary}
                                    ELSE {L2Fallback})
         IN /\ first_tried' \in {<< L2Primary >>, << L2Primary, L2Fallback >>}
            /\ first_tried' = << L2Primary, L2Fallback >> <=> ~primary_ok
            /\ l2_name' = IF primary_ok THEN L2Primary ELSE L2Fallback
            /\ read = {} => is_initial(l2')
            /\ \A v \in read : is_assigned(l2') /\ l2'.value = v]_vars

C14_Witness ==
  /\ pc = "done"
  /\ nvisited >= 2
  /\ first_tried = << L2Primary, L2Fallback >>
  /\ l2_name = L2Fallback
  /\ is_initial(l2)

\* ------------------------------------------------------------------------
\* The results of the probe
\* ------------------------------------------------------------------------
\* what a tracker stands for: its value when ASSIGNED, 0 (unknown) otherwise
TrackerValue(t) == IF is_assigned(t) THEN t.value ELSE 0

\* C15: when the probe returns, each line size is the value of its tracker
\* if the tracker ended ASSIGNED and 0 if it ended INITIAL or INCONSISTENT
\* or the walk never ran; platform_features stores the L2 size, and nothing
\* else, in _L2_data_cache_line_size, and only when it returns.
C15_SizesFromTrackers ==
  /\ [](Returned =>
          /\ L1_size = TrackerValue(l1)
          /\ L2_size = TrackerValue(l2)
          /\ ~Has("readout") => (L1_size = 0 /\ L2_size = 0))
  /\ [](pc = "done" => L2_global = TrackerValue(l2))
  /\ [][L2_global' # L2_global => (pc = "return" /\ L2_global' = L2_size)]_vars

C15_Witness ==
  /\ pc = "done"
  /\ is_inconsistent(l1)
  /\ is_assigned(l2) /\ l2.value = 32
  /\ 64 \in seen1
  /\ L1_size = 0
  /\ L2_global = 32

\* ------------------------------------------------------------------------
\* The probe and the assembled features
\* ------------------------------------------------------------------------
\* the feature assembly has not finished
Assembling == pc \in {"entry", "arch64", "getisax", "machine", "kstat"}

\* C16: the probe starts once the features are assembled and they do not
\* change afterwards; the class walked is "core" exactly when
\* sparc64_family_m is in them and "cpu" otherwise; the limit of the walk is
\* 1 when sun4v_m is in them and sparc64_family_m is not, and
\* os::processor_count() otherwise.
C16_ProbeFollowsFeatures ==
  /\ [](Assembling => (events = <<>> /\ nvisited = 0 /\ budget = 0))
  /\ [](events # <<>> => features = assembled)
  /\ [](Has("picl_walk_tree_by_class") =>
          /\ cpu_class = IF sparc64_family_m \subseteq features
                           THEN "core" ELSE "cpu"
          /\ budget = IF sun4v_m \subseteq features
                           /\ ~(sparc64_family_m \subseteq features)
                        THEN 1 ELSE cpu_count)
  /\ [][~Assembling => features' = features]_vars

C16_Witness ==
  /\ pc = "done"
  /\ sun4v_m \subseteq features
  /\ sparc64_family_m \subseteq features
  /\ cpu_class = "core"
  /\ cpu_count = MaxCPUs
  /\ budget = MaxCPUs
  /\ nvisited >= 2

\* ------------------------------------------------------------------------
\* The label and the family bits of the kstat block
\* ------------------------------------------------------------------------
FamilyMasks == sparc64_family_m \cup M_family_m \cup T_family_m \cup T1_model_m

\* the kstat block cannot identify the family from the chain ks, which
\* kstat_open has delivered
Unidentified(ks) ==
  \/ kstat_string(ks) = NoString
  \/ /\ ~Mentions(kstat_string(ks), S_SPARC64)
     /\ ~Mentions(kstat_string(ks), S_SPARC_M)
     /\ ~Mentions(kstat_string(ks), S_SPARC_T)

\* C17 as claimed: whenever the family cannot be identified the block ends
\* with the placeholder label "SPARC" and without a family bit added, and
\* the label is never "UNKNOWN" when the block ends.
C17_PlaceholderSubstituted ==
  (kstat # <<>> /\ kstat[1].kc_ok /\ Unidentified(kstat[1])) =>
    /\ pc = "picl"
    /\ implementation = S_SPARC
    /\ implementation # S_UNKNOWN
    /\ features \cap FamilyMasks \subseteq baseline

\* the bits the claimed priority order gives for the string s
FamilyBits(s) ==
  IF Mentions(s, S_SPARC64) THEN sparc64_family_m
  ELSE IF Mentions(s, S_SPARC_M) THEN M_family_m \cup T_family_m
  ELSE IF Mentions(s, S_SPARC_T)
    THEN IF Mentions(s, S_SPARC_T1) THEN T_family_m \cup T1_model_m
         ELSE T_family_m
  ELSE {}

\* C18: the block adds to the features exactly the bits of the first marker
\* the implementation string holds, in the order SPARC64, SPARC-M, SPARC-T
\* and without regard to letter case, and nothing when it holds none.
C18_FirstMatchInOrder ==
  [][(kstat = <<>> /\ kstat' # <<>> /\ pc' = "picl"
        /\ kstat_string(kstat'[1]) # NoString)
       => features' = features \cup FamilyBits(kstat_string(kstat'[1]))]_vars

C18_Witness ==
  /\ ReadImplementation
  /\ kstat_string(kstat[1]) = << "S", "P", "A", "R", "C", "-", "T", "1", " ", "S", "P", "A", "R", "C", "6", "4", "-", "X" >>
  /\ baseline = {}
  /\ features \cap FamilyMasks = sparc64_family_m

\* ------------------------------------------------------------------------
\* The legacy (SI_ISALIST) path
\* ------------------------------------------------------------------------
\* the three characters after the first "sparc" of the list b
SparcSuffix(b) ==
  LET sp == strstr(b, << "s", "p", "a", "r", "c" >>)
  IN << CharAt(b, sp + 5), CharAt(b, sp + 6), CharAt(b, sp + 7) >>

\* the bits the claim gives for the capability list b
LegacyBits(b) ==
  LET x == SparcSuffix(b)
      vis == strstr(b, << "v", "i", "s" >>)
      sparc_bits ==
        IF strstr(b, << "s", "p", "a", "r", "c" >>) = 0 THEN {}
        ELSE v8_instructions_m \cup
          (IF x = << "v", "8", "-" >>
             THEN hardware_mul32_m \cup hardware_div32_m
           ELSE IF x = << "v", "8", "p" >> THEN generic_v9_m
           ELSE IF x[1] = "v" /\ x[2] = "8" THEN generic_v8_m
           ELSE IF x[1] = "v" /\ x[2] = "9" THEN generic_v9_m
           ELSE {})
      vis_bits ==
        IF vis = 0 THEN {}
        ELSE vis1_instructions_m \cup
          (IF CharAt(b, vis + 3) = "2" THEN vis2_instructions_m ELSE {})
  IN sparc_bits \cup vis_bits

\* C19: once the legacy block has parsed a capability list, the features
\* are the baseline with exactly the bits the list stands for: those of the
\* suffix of its first "sparc" and those of its first "vis"; a query that
\* delivers no list adds nothing.
C19_LegacyListBits ==
  (pc = "machine" /\ isalist # <<>>) =>
    features = baseline \cup
      (IF NoList(isalist[1]) THEN {} ELSE LegacyBits(isalist[1].buf))

C19_Witness ==
  /\ pc = "machine"
  /\ isalist # <<>>
  /\ ~NoList(isalist[1])
  /\ isalist[1].buf = << "s", "p", "a", "r", "c", "8" >>
  /\ baseline = {}
  /\ features = v8_instructions_m

\* ------------------------------------------------------------------------
\* The preconditions of the trackers
\* ------------------------------------------------------------------------
TrackerAssertions ==
  { "Precondition: visit", "Precondition: set_value", "Precondition: value",
    "First iteration cannot be inconsistent" }

\* C20: no walk makes an assertion of the trackers false: visit is never
\* entered on an INCONSISTENT tracker, set_value only runs in state INITIAL,
\* value() only in state ASSIGNED, the first visit does not find the L2
\* tracker INCONSISTENT; and no tracker goes from INITIAL to INCONSISTENT.
C20_TrackerPreconditions ==
  /\ [](violated \cap TrackerAssertions = {})
  /\ [](abort_msg \notin TrackerAssertions)
  /\ [][/\ ~(is_initial(l1) /\ is_inconsistent(l1'))
        /\ ~(is_initial(l2) /\ is_inconsistent(l2'))]_vars

C20_Witness ==
  /\ pc = "done"
  /\ debug
  /\ nvisited = 3
  /\ is_inconsistent(l1)
  /\ is_inconsistent(l2)
  /\ l2_name = L2Fallback
====
